---------------------------- MODULE Spec2Model ----------------------------
(***************************************************************************)
(* The Nova Act n8n node: NovaAct.execute and the invocation of the        *)
(* external automation process, in the two implementations the repository  *)
(* holds:                                                                  *)
(*   "exec"  - src/src/nodes/NovaAct/NovaAct.node.ts (NovaActHelper        *)
(*             .executeScript, child_process.exec with a timeout)          *)
(*   "spawn" - src/unnamed/part_004 (child_process.spawn, request on the   *)
(*             child's stdin, result read from its stdout)                 *)
(*                                                                         *)
(* Spec is one execution of a batch against an arbitrary engine; SpecTwice  *)
(* is two executions of one batch against an engine that answers a request *)
(* it has seen before the same way.                                        *)
(*                                                                         *)
(* Text is a sequence of tokens (strings); whitespace tokens are " " and   *)
(* "\n". A JSON object is a record; undefined is the text <<"undefined">>. *)
(***************************************************************************)
EXTENDS Naturals, Sequences, FiniteSets, TLC

(* ------------------------------ bounds --------------------------------- *)

\* largest number of input items of a batch
MaxItems == 2

(* ------------------------------- text ---------------------------------- *)

Whitespace == {" ", "\n"}

RECURSIVE TrimStart(_)
TrimStart(s) ==
    IF s # <<>> /\ Head(s) \in Whitespace THEN TrimStart(Tail(s)) ELSE s

RECURSIVE TrimEnd(_)
TrimEnd(s) ==
    IF s # <<>> /\ s[Len(s)] \in Whitespace
    THEN TrimEnd(SubSeq(s, 1, Len(s) - 1))
    ELSE s

\* String.prototype.trim
Trim(s) == TrimEnd(TrimStart(s))

\* String.prototype.includes, on tokens
Includes(s, sub) ==
    \E k \in 0..(Len(s) - Len(sub)) : SubSeq(s, k + 1, k + Len(sub)) = sub

\* the value of a missing property
Undefined == <<"undefined">>

\* obj.f
Get(obj, f) == IF f \in DOMAIN obj THEN obj[f] ELSE Undefined

\* null
Null == <<"null">>

\* x || d for a text, list or object x: undefined, null and "" are falsy
\* (an empty list or object is truthy, and d is then the same empty value)
OrElse(x, d) == IF x = Undefined \/ x = Null \/ x = <<>> THEN d ELSE x

\* n || d for a number n: 0 is falsy
NumOrElse(n, d) == IF n = 0 THEN d ELSE n

RECURSIVE Split(_, _)
\* String.prototype.split on a separator token
Split(s, sep) ==
    IF \E k \in 1..Len(s) : s[k] = sep
    THEN LET k == CHOOSE j \in 1..Len(s) :
                      s[j] = sep /\ \A h \in 1..(j - 1) : s[h] # sep
         IN  <<SubSeq(s, 1, k - 1)>> \o Split(SubSeq(s, k + 1, Len(s)), sep)
    ELSE <<s>>

RECURSIVE NonBlank(_)
\* Array.prototype.filter(cmd => cmd.trim())
NonBlank(lines) ==
    IF lines = <<>> THEN <<>>
    ELSE IF Trim(Head(lines)) # <<>>
         THEN <<Head(lines)>> \o NonBlank(Tail(lines))
         ELSE NonBlank(Tail(lines))

(* ------------------------------- JSON ---------------------------------- *)

\* the empty JSON object {}
EmptyObject == [f \in {} |-> <<>>]

\* texts of the engine's well-formed messages
OkText == <<"{\"success\":true,\"result\":\"ok\",\"screenshots\":[]}">>
FailText == <<"{\"success\":false,\"error\":\"boom\"}">>
OkBareText == <<"{\"success\":true,\"result\":\"ok\"}">>
SchemaText == <<"{", "}">>

OkMessage == [success |-> TRUE, result |-> <<"ok">>, screenshots |-> <<>>]
FailMessage == [success |-> FALSE, error |-> <<"boom">>]
OkBareMessage == [success |-> TRUE, result |-> <<"ok">>]

\* the text as a SyntaxError of JSON.parse quotes it: whole when it is
\* short (one token), cut after its beginning when it is longer
Quoted(t) == IF Len(t) <= 1 THEN t ELSE <<Head(t), "...">>

\* what JSON.parse throws
SyntaxErrorMessage(t) ==
    IF t = <<>>
    THEN <<"Unexpected end of JSON input">>
    ELSE <<"Unexpected token, \"">> \o Quoted(t) \o <<"\" is not valid JSON">>

\* JSON.parse: surrounding whitespace is skipped; [ok, value] or [ok, error]
JSONParse(s) ==
    LET t == Trim(s) IN
    CASE t = OkText     -> [ok |-> TRUE, value |-> OkMessage]
      [] t = FailText   -> [ok |-> TRUE, value |-> FailMessage]
      [] t = OkBareText -> [ok |-> TRUE, value |-> OkBareMessage]
      [] t = SchemaText -> [ok |-> TRUE, value |-> EmptyObject]
      [] OTHER          -> [ok |-> FALSE, error |-> SyntaxErrorMessage(t)]

\* JSON.stringify of a string: quoted, newlines escaped
JsonString(s) ==
    <<"\"">> \o [k \in 1..Len(s) |-> IF s[k] = "\n" THEN "\\n" ELSE s[k]]
             \o <<"\"">>

JsonBool(b) == IF b THEN <<"true">> ELSE <<"false">>

JsonNumber(n) == <<ToString(n)>>

\* JSON.stringify of an object without properties
JsonObject(o) == IF DOMAIN o = {} THEN <<"{}">> ELSE <<"{", "...", "}">>

(* --------------------------- inputs and engine ------------------------- *)

Impls == {"exec", "spawn"}

\* the secret of the novaActApi credential
ApiKey == <<"SECRET">>

\* default of the timeout parameter, seconds
DefaultTimeout == 300

\* node settings shared by the items of a batch
Settings == { [headless |-> TRUE, timeout |-> DefaultTimeout],
              [headless |-> FALSE, timeout |-> 0] }

\* item texts: empty, whitespace only, a padded value
CommandTexts == { <<>>, <<" ", "\n">>, <<" ", "click", "\n">> }
UrlTexts == { <<>>, <<" ">>, <<"https://example.com">> }
NavTexts == { <<>>, <<"scroll", " ">> }
SchemaTexts == { <<>>, <<" ">>, SchemaText, <<"{">> }

\* what the external process may write and how it may exit
StdoutTexts == { <<>>, OkText \o <<"\n">>, FailText \o <<"\n">>,
                 OkBareText \o <<"\n">>,
                 <<"garbage", "\n">>,
                 <<"Traceback", " ", "NameError", "\n">> }
StderrTexts == { <<>>, <<"WARNING", ": slow">>, <<"auth failed">> }
ExitCodes == {0, 1}

(* ------------------------------- state --------------------------------- *)

VARIABLES
    impl,            \* which node implementation runs
    continueOnFail,  \* what this.continueOnFail() returns
    node,            \* the node's settings: operation, headless, timeout, ...
    nItems,          \* items.length
    i,               \* the loop index: items 1..i are behind the loop
    pc,              \* "loop", "await" (suspended on the process), "done", "thrown"
    item,            \* the parameters read for the item in hand
    request,         \* what was handed to the process started for it
    io,              \* while suspended: what that process wrote, its exit code
    elapsed,         \* while suspended: the configured timeout has passed
    returnData,      \* the output records (returnData / results)
    thrown,          \* the message of the error execute rejected with
    procs,           \* per item, the state of the process started for it
    spawns,          \* per item, the number of processes started for it
    raised,          \* per item, the message of the error its try block raised
    recOf,           \* per output record, the item it was pushed for
    batch,           \* when a batch is executed twice: the parameters of its items
    run,             \* 1, or 2 in the second execution of the batch
    first,           \* in the second execution: how the first one ended
    engine           \* a deterministic engine: its response to each request seen

vars == <<impl, continueOnFail, node, nItems, i, pc, item, request, io, elapsed,
          returnData, thrown, procs, spawns, raised, recOf, batch, run, first,
          engine>>

NoItem == [read |-> FALSE]
NoRequest == [sent |-> FALSE]
NoIo == [stdout |-> <<>>, stderr |-> <<>>, code |-> 0]
NoError == <<>>
NoFirst == [ended |-> FALSE]

\* the item in hand, counted from 1
Cur == i + 1

Alive(k) == procs[k] \in {"running", "lingering"}

(* --------------------------- the exec node ----------------------------- *)

\* path.join(__dirname, 'nova_act_runner.py')
ScriptPath == "nova_act_runner.py"

\* JSON.stringify(params) of performActions
PerformParamsText(params) ==
    <<"{", "\"commands\":">> \o JsonString(params.commands)
    \o <<",", "\"starting_url\":">> \o JsonString(params.starting_url)
    \o <<",", "\"headless\":">> \o JsonBool(params.headless)
    \o <<",", "\"timeout\":">> \o JsonNumber(params.timeout) \o <<"}">>

\* JSON.stringify(params) of extractData
ExtractParamsText(params) ==
    <<"{", "\"starting_url\":">> \o JsonString(params.starting_url)
    \o <<",", "\"navigation_commands\":">>
    \o JsonString(params.navigation_commands)
    \o <<",", "\"data_schema\":">> \o JsonObject(params.data_schema)
    \o <<",", "\"headless\":">> \o JsonBool(params.headless)
    \o <<",", "\"timeout\":">> \o JsonNumber(params.timeout) \o <<"}">>

\* args.join(' ')
ExecCommand(apiKey, operation, paramsText) ==
    <<"python3", " ", ScriptPath, " ", "--api_key", " ", "\"">> \o apiKey
    \o <<"\"", " ", "--operation", " ", operation, " ", "--params", " ", "'">>
    \o paramsText \o <<"'">>

\* the timeout option handed to exec, milliseconds
ExecTimeoutMs(params) == NumOrElse(params.timeout, DefaultTimeout) * 1000

\* what NovaActHelper.executeScript hands to exec; the child's stdin is
\* neither written nor ended
ExecRequest(operation, params, paramsText) ==
    [sent |-> TRUE, channel |-> "shell", operation |-> operation,
     params |-> params,
     command |-> ExecCommand(ApiKey, operation, paramsText),
     timeoutMs |-> ExecTimeoutMs(params),
     written |-> 0, ended |-> FALSE]

\* the message of the error exec rejects with
CommandFailedMessage(command, stderr) ==
    <<"Command failed: ">> \o command \o <<"\n">> \o stderr

ScriptErrorMessage(stderr) == <<"Nova Act script error: ">> \o stderr

FailedToExecuteMessage(message) ==
    <<"Failed to execute Nova Act automation: ">> \o message

\* exec's callback: an error when the child was killed or exited non-zero
PExec(status, out, command) ==
    IF status = "killed" \/ out.code # 0
    THEN [ok |-> FALSE, error |-> CommandFailedMessage(command, out.stderr)]
    ELSE [ok |-> TRUE, stdout |-> out.stdout, stderr |-> out.stderr]

\* stderr && !stderr.includes('WARNING')
StderrIsError(stderr) == stderr # <<>> /\ ~Includes(stderr, <<"WARNING">>)

\* the parse of stdout, or the raw output when it does not parse
ParseOrRaw(stdout, stderr) ==
    LET p == JSONParse(Trim(stdout)) IN
    IF p.ok THEN p.value
    ELSE [stdout |-> Trim(stdout), stderr |-> OrElse(stderr, Null)]

\* NovaActHelper.executeScript, once the child has closed
ExecuteScript(status, out, command) ==
    LET r == PExec(status, out, command) IN
    IF ~r.ok
    THEN [ok |-> FALSE, error |-> FailedToExecuteMessage(r.error)]
    ELSE IF StderrIsError(r.stderr)
         THEN [ok |-> FALSE,
               error |-> FailedToExecuteMessage(ScriptErrorMessage(r.stderr))]
         ELSE [ok |-> TRUE, value |-> ParseOrRaw(r.stdout, r.stderr)]

PerformRecord(result, commands) ==
    [success |-> TRUE,
     result |-> Get(result, "stdout"),
     screenshots |-> OrElse(Get(result, "screenshots"), <<>>),
     executedCommands |-> NonBlank(Split(commands, "\n"))]

ExtractRecord(result, startingUrl) ==
    [success |-> TRUE,
     extractedData |-> OrElse(Get(result, "extracted_data"), EmptyObject),
     screenshots |-> OrElse(Get(result, "screenshots"), <<>>),
     url |-> startingUrl]

\* a slip that tests the text without trimming it
CommandsMissingUntrimmed(commands) == commands = <<>>

\* !commands.trim()
CommandsMissing(commands) == Trim(commands) = <<>>

\* !startingUrl.trim()
UrlMissing(startingUrl) == Trim(startingUrl) = <<>>

NoCommandsMessage == <<"No commands provided">>
UrlRequiredMessage == <<"Starting URL is required for data extraction">>
InvalidSchemaMessage == <<"Invalid JSON schema provided">>

(* --------------------------- the spawn node ---------------------------- *)

PromptRequiredMessage == <<"Prompt is required">>

\* options.f !== false
NotFalse(options, f) == ~(f \in DOMAIN options /\ options[f] = FALSE)

\* a slip that takes an option the item leaves out as set
IsTrueByDefault(options, f) == ~(f \in DOMAIN options /\ options[f] = FALSE)

\* options.f === true
IsTrue(options, f) == f \in DOMAIN options /\ options[f] = TRUE

\* !prompt.trim()
PromptMissing(prompt) == Trim(prompt) = <<>>

\* a slip that never looks at the schema text
SchemaNeverSupplied(schema) == FALSE

\* schema && schema.trim()
SchemaSupplied(schema) == schema # <<>> /\ Trim(schema) # <<>>

Payload(operation, prompt, url, headless, timeout, apiKey, options) ==
    [operation |-> operation,
     prompt |-> Trim(prompt),
     url |-> OrElse(url, <<"about:blank">>),
     headless |-> headless,
     timeout |-> timeout,
     api_key |-> apiKey,
     capture_screenshots |-> NotFalse(options, "captureScreenshots"),
     detailed_logging |-> NotFalse(options, "detailedLogging"),
     include_stack_trace |-> IsTrue(options, "includeStackTrace")]

\* payload.schema = JSON.parse(schema)
WithSchema(payload, parsed) ==
    [f \in DOMAIN payload \cup {"schema"} |->
        IF f = "schema" THEN parsed ELSE payload[f]]

\* spawn, stdin.write(JSON.stringify(payload)), stdin.end()
SpawnRequest(payload) ==
    [sent |-> TRUE, channel |-> "stdin", operation |-> payload.operation,
     payload |-> payload,
     written |-> 1, ended |-> TRUE]

(* ----------------------------- the item loop --------------------------- *)

\* a slip that reports a fixed text instead of the error's message
FailureRecordWithoutMessage(message) ==
    [success |-> FALSE, error |-> <<"Unknown error">>]

\* { success: false, error: error.message }
FailureRecord(message) == [success |-> FALSE, error |-> message]

\* a slip that goes on with the next item whatever the mode
ContinuesAlways == TRUE

\* this.continueOnFail()
Continues == continueOnFail

\* returnData.push(record), then the next iteration
Push(record) ==
    /\ returnData' = Append(returnData, record)
    /\ recOf' = Append(recOf, Cur)
    /\ i' = i + 1
    /\ pc' = "loop"
    /\ thrown' = thrown

\* a slip that starts the output afresh when it records a failure
CatchForgetting(message) ==
    /\ raised' = [raised EXCEPT ![Cur] = message]
    /\ IF Continues
       THEN /\ returnData' = <<FailureRecord(message)>>
            /\ recOf' = <<Cur>>
            /\ i' = i + 1
            /\ pc' = "loop"
            /\ thrown' = thrown
       ELSE /\ pc' = "thrown"
            /\ thrown' = message
            /\ UNCHANGED <<returnData, recOf, i>>

\* the catch block of the item loop
Catch(message) ==
    /\ raised' = [raised EXCEPT ![Cur] = message]
    /\ IF Continues
       THEN Push(FailureRecord(message))
       ELSE /\ pc' = "thrown"
            /\ thrown' = message
            /\ UNCHANGED <<returnData, recOf, i>>

\* the process is started and the loop suspends on it
Invoke(req) ==
    /\ request' = req
    /\ procs' = [procs EXCEPT ![Cur] = "running"]
    /\ spawns' = [spawns EXCEPT ![Cur] = @ + 1]
    /\ io' = NoIo
    /\ elapsed' = FALSE
    /\ pc' = "await"
    /\ UNCHANGED <<i, returnData, recOf, thrown, raised>>

\* the item ends before any process is started
Reject(message) ==
    /\ Catch(message)
    /\ request' = NoRequest
    /\ io' = NoIo
    /\ elapsed' = FALSE
    /\ UNCHANGED <<procs, spawns>>

\* the settings a batch of the exec node can run under
ExecNodes ==
    { [resource |-> "browser", operation |-> o, headless |-> s.headless,
       timeout |-> s.timeout] :
          o \in {"performActions", "extractData"}, s \in Settings }
    \cup
    { [resource |-> "browser", operation |-> "action_extract",
       headless |-> TRUE, timeout |-> DefaultTimeout],
      [resource |-> "other", operation |-> "performActions",
       headless |-> TRUE, timeout |-> DefaultTimeout] }

\* the settings a batch of the spawn node can run under
SpawnNodes ==
    { [operation |-> "action", headless |-> TRUE,
       timeout |-> DefaultTimeout, options |-> EmptyObject],
      [operation |-> "extract", headless |-> FALSE, timeout |-> 2,
       options |-> [includeStackTrace |-> TRUE]],
      [operation |-> "action_extract", headless |-> TRUE,
       timeout |-> 0,
       options |-> [captureScreenshots |-> FALSE, detailedLogging |-> FALSE,
                    includeStackTrace |-> FALSE]] }

\* execute is called
Start ==
    /\ impl \in Impls
    /\ continueOnFail \in BOOLEAN
    /\ node \in (IF impl = "exec" THEN ExecNodes ELSE SpawnNodes)
    /\ nItems \in 0..MaxItems
    /\ i = 0
    /\ pc = "loop"
    /\ item = NoItem
    /\ request = NoRequest
    /\ io = NoIo
    /\ elapsed = FALSE
    /\ returnData = <<>>
    /\ thrown = NoError
    /\ procs = [k \in 1..nItems |-> "none"]
    /\ spawns = [k \in 1..nItems |-> 0]
    /\ raised = [k \in 1..nItems |-> NoError]
    /\ recOf = <<>>
    /\ run = 1
    /\ first = NoFirst
    /\ engine = {}

Init == Start /\ batch = <<>>

\* what execute is called with
Batch == <<impl, continueOnFail, node, nItems, batch>>

Static == <<Batch, run, first, engine>>

\* exec node, one iteration for performActions, up to the await of the script
ExecPerformItem ==
    /\ impl = "exec" /\ pc = "loop" /\ i < nItems
    /\ node.resource = "browser" /\ node.operation = "performActions"
    /\ \E startingUrl \in UrlTexts, commands \in CommandTexts :
        /\ item' = [read |-> TRUE, startingUrl |-> startingUrl,
                    commands |-> commands]
        /\ IF CommandsMissing(commands)
           THEN Reject(NoCommandsMessage)
           ELSE LET params == [commands |-> Trim(commands),
                               starting_url |-> startingUrl,
                               headless |-> node.headless,
                               timeout |-> node.timeout]
                IN  Invoke(ExecRequest("perform_actions", params,
                                       PerformParamsText(params)))
    /\ UNCHANGED Static

\* exec node, one iteration for extractData, up to the await of the script
ExecExtractItem ==
    /\ impl = "exec" /\ pc = "loop" /\ i < nItems
    /\ node.resource = "browser" /\ node.operation = "extractData"
    /\ \E startingUrl \in UrlTexts, dataSchema \in SchemaTexts,
          navigationCommands \in NavTexts :
        /\ item' = [read |-> TRUE, startingUrl |-> startingUrl,
                    dataSchema |-> dataSchema,
                    navigationCommands |-> navigationCommands]
        /\ IF UrlMissing(startingUrl)
           THEN Reject(UrlRequiredMessage)
           ELSE IF ~JSONParse(dataSchema).ok
           THEN Reject(InvalidSchemaMessage)
           ELSE LET params == [starting_url |-> startingUrl,
                               navigation_commands |-> Trim(navigationCommands),
                               data_schema |-> JSONParse(dataSchema).value,
                               headless |-> node.headless,
                               timeout |-> node.timeout]
                IN  Invoke(ExecRequest("extract_data", params,
                                       ExtractParamsText(params)))
    /\ UNCHANGED Static

\* exec node, one iteration when no branch matches resource and operation:
\* nothing is pushed and nothing is thrown
ExecOtherItem ==
    /\ impl = "exec" /\ pc = "loop" /\ i < nItems
    /\ ~(node.resource = "browser"
         /\ node.operation \in {"performActions", "extractData"})
    /\ \E startingUrl \in UrlTexts :
        item' = [read |-> TRUE, startingUrl |-> startingUrl]
    /\ i' = i + 1
    /\ request' = NoRequest
    /\ io' = NoIo
    /\ elapsed' = FALSE
    /\ UNCHANGED <<pc, returnData, thrown, procs, spawns, raised, recOf>>
    /\ UNCHANGED Static

\* spawn node, one iteration up to the read of the child's stdout
SpawnItem ==
    /\ impl = "spawn" /\ pc = "loop" /\ i < nItems
    /\ \E prompt \in CommandTexts, url \in UrlTexts, schema \in SchemaTexts :
        /\ item' = [read |-> TRUE, prompt |-> prompt, url |-> url,
                    schema |-> schema]
        /\ IF PromptMissing(prompt)
           THEN Reject(PromptRequiredMessage)
           ELSE LET payload == Payload(node.operation, prompt, url,
                                       node.headless, node.timeout, ApiKey,
                                       node.options)
                IN  IF SchemaSupplied(schema)
                    THEN IF JSONParse(schema).ok
                         THEN Invoke(SpawnRequest(
                                  WithSchema(payload, JSONParse(schema).value)))
                         ELSE Reject(InvalidSchemaMessage)
                    ELSE Invoke(SpawnRequest(payload))
    /\ UNCHANGED Static

\* the process of the item in hand writes its response and closes its
\* stdout, and goes on running
EngineClosesStdout ==
    /\ pc = "await" /\ procs[Cur] = "running"
    /\ \E out \in StdoutTexts : io' = [io EXCEPT !.stdout = out]
    /\ procs' = [procs EXCEPT ![Cur] = "lingering"]
    /\ UNCHANGED <<i, pc, item, request, elapsed, returnData, thrown, spawns,
                   raised, recOf>>
    /\ UNCHANGED Static

\* the process of the item in hand exits
EngineExits ==
    /\ pc = "await" /\ Alive(Cur)
    /\ \E out \in StdoutTexts, err \in StderrTexts, code \in ExitCodes :
        io' = [stdout |-> IF procs[Cur] = "running" THEN out ELSE io.stdout,
               stderr |-> err, code |-> code]
    /\ procs' = [procs EXCEPT ![Cur] = "exited"]
    /\ UNCHANGED <<i, pc, item, request, elapsed, returnData, thrown, spawns,
                   raised, recOf>>
    /\ UNCHANGED Static

\* a process the loop no longer waits for exits
EngineExitsLate ==
    /\ \E k \in 1..nItems :
        /\ Alive(k)
        /\ ~(k = Cur /\ pc = "await")
        /\ procs' = [procs EXCEPT ![k] = "exited"]
    /\ UNCHANGED <<i, pc, item, request, io, elapsed, returnData, thrown,
                   spawns, raised, recOf>>
    /\ UNCHANGED Static

\* the configured timeout passes while the loop is suspended; exec's timer
\* kills a child that is still running, the spawn node has no timer
TimeoutElapses ==
    /\ pc = "await" /\ ~elapsed
    /\ elapsed' = TRUE
    /\ IF impl = "exec" /\ request.timeoutMs > 0 /\ Alive(Cur)
       THEN /\ procs' = [procs EXCEPT ![Cur] = "killed"]
            /\ \E err \in StderrTexts : io' = [io EXCEPT !.stderr = err]
       ELSE UNCHANGED <<procs, io>>
    /\ UNCHANGED <<i, pc, item, request, returnData, thrown, spawns, raised,
                   recOf>>
    /\ UNCHANGED Static

\* exec node: the child has closed, executeScript settles and the iteration
\* ends
ExecCompletes ==
    /\ impl = "exec" /\ pc = "await"
    /\ procs[Cur] \in {"exited", "killed"}
    /\ LET r == ExecuteScript(procs[Cur], io, request.command) IN
       IF r.ok
       THEN /\ Push(IF node.operation = "performActions"
                    THEN PerformRecord(r.value, item.commands)
                    ELSE ExtractRecord(r.value, item.startingUrl))
            /\ UNCHANGED raised
       ELSE Catch(r.error)
    /\ io' = NoIo
    /\ elapsed' = FALSE
    /\ UNCHANGED <<item, request, procs, spawns>>
    /\ UNCHANGED Static

\* spawn node: the child's stdout has ended, the output is parsed and the
\* iteration ends
SpawnCompletes ==
    /\ impl = "spawn" /\ pc = "await"
    /\ procs[Cur] \in {"lingering", "exited"}
    /\ LET result == JSONParse(io.stdout) IN
       IF result.ok
       THEN Push(result.value) /\ UNCHANGED raised
       ELSE Catch(result.error)
    /\ io' = NoIo
    /\ elapsed' = FALSE
    /\ UNCHANGED <<item, request, procs, spawns>>
    /\ UNCHANGED Static

\* the child of the spawn node, or its stdin, emits 'error' (python3 or the
\* runner cannot be started, the pipe breaks under the write): no listener is
\* attached, so the event is thrown on the event loop, outside the try block
\* and outside execute. Where the host keeps running after it, the loop goes
\* on with a closed, empty stdout, as in EngineClosesStdout and EngineExits.
SpawnErrorEvent ==
    /\ impl = "spawn" /\ pc = "await" /\ procs[Cur] = "running"
    /\ pc' = "crashed"
    /\ procs' = [procs EXCEPT ![Cur] = "failed"]
    /\ UNCHANGED <<i, item, request, io, elapsed, returnData, thrown, spawns,
                   raised, recOf>>
    /\ UNCHANGED Static

\* return [returnData]
Return ==
    /\ pc = "loop" /\ i = nItems
    /\ pc' = "done"
    /\ UNCHANGED <<i, item, request, io, elapsed, returnData, thrown, procs,
                   spawns, raised, recOf>>
    /\ UNCHANGED Static

Next ==
    \/ ExecPerformItem
    \/ ExecExtractItem
    \/ ExecOtherItem
    \/ SpawnItem
    \/ EngineClosesStdout
    \/ EngineExits
    \/ EngineExitsLate
    \/ TimeoutElapses
    \/ ExecCompletes
    \/ SpawnCompletes
    \/ SpawnErrorEvent
    \/ Return

Spec == Init /\ [][Next]_vars

(* ------------------- the same batch executed twice --------------------- *)

\* the items a batch that is executed twice is made of: one that validation
\* rejects, and ones that differ in their request
BatchItems ==
    IF impl = "spawn"
    THEN { [read |-> TRUE, prompt |-> <<" ", "\n">>, url |-> <<>>,
            schema |-> <<>>],
           [read |-> TRUE, prompt |-> <<" ", "click", "\n">>, url |-> <<>>,
            schema |-> <<>>],
           [read |-> TRUE, prompt |-> <<" ", "click", "\n">>,
            url |-> <<"https://example.com">>, schema |-> SchemaText],
           [read |-> TRUE, prompt |-> <<" ", "click", "\n">>,
            url |-> <<"https://example.com">>, schema |-> <<"{">>] }
    ELSE IF node.resource = "browser" /\ node.operation = "performActions"
    THEN { [read |-> TRUE, startingUrl |-> <<>>, commands |-> <<" ", "\n">>],
           [read |-> TRUE, startingUrl |-> <<>>,
            commands |-> <<" ", "click", "\n">>],
           [read |-> TRUE, startingUrl |-> <<"https://example.com">>,
            commands |-> <<" ", "click", "\n">>] }
    ELSE IF node.resource = "browser" /\ node.operation = "extractData"
    THEN { [read |-> TRUE, startingUrl |-> <<" ">>, dataSchema |-> SchemaText,
            navigationCommands |-> <<>>],
           [read |-> TRUE, startingUrl |-> <<"https://example.com">>,
            dataSchema |-> <<"{">>, navigationCommands |-> <<>>],
           [read |-> TRUE, startingUrl |-> <<"https://example.com">>,
            dataSchema |-> SchemaText, navigationCommands |-> <<>>],
           [read |-> TRUE, startingUrl |-> <<"https://example.com">>,
            dataSchema |-> SchemaText,
            navigationCommands |-> <<"scroll", " ">>] }
    ELSE { [read |-> TRUE, startingUrl |-> <<>>] }

InitTwice == Start /\ batch \in [1..nItems -> BatchItems]

\* the parameters of the item in hand are those of the batch
FromBatch == item' = batch[Cur]

\* what a deterministic engine may answer to a request: what it writes, how
\* it exits, and whether it exits at once, closes its stdout first, or does
\* neither before the timeout
DetResponses ==
    { [stdout |-> OkText \o <<"\n">>, stderr |-> <<>>, code |-> 0,
       mode |-> "exits"],
      [stdout |-> FailText \o <<"\n">>, stderr |-> <<>>, code |-> 0,
       mode |-> "exits"],
      [stdout |-> <<"garbage", "\n">>, stderr |-> <<"WARNING", ": slow">>,
       code |-> 0, mode |-> "exits"],
      [stdout |-> <<>>, stderr |-> <<"auth failed">>, code |-> 1,
       mode |-> "exits"],
      [stdout |-> OkText \o <<"\n">>, stderr |-> <<>>, code |-> 0,
       mode |-> "closes"],
      [stdout |-> <<>>, stderr |-> <<>>, code |-> 0, mode |-> "hangs"] }

\* the engine's response to the request of the item in hand: the one it gave
\* to the same request before, or any if the request is new
Responses ==
    LET known == {p \in engine : p[1] = request} IN
    IF known = {} THEN DetResponses ELSE {p[2] : p \in known}

\* the deterministic engine responds and exits
DetEngineExits ==
    /\ pc = "await" /\ procs[Cur] = "running"
    /\ \E r \in Responses :
        /\ r.mode = "exits"
        /\ engine' = engine \cup {<<request, r>>}
        /\ io' = [stdout |-> r.stdout, stderr |-> r.stderr, code |-> r.code]
    /\ procs' = [procs EXCEPT ![Cur] = "exited"]
    /\ UNCHANGED <<i, pc, item, request, elapsed, returnData, thrown, spawns,
                   raised, recOf, run, first>>
    /\ UNCHANGED Batch

\* the deterministic engine responds, closes its stdout and goes on running
DetEngineClosesStdout ==
    /\ pc = "await" /\ procs[Cur] = "running"
    /\ \E r \in Responses :
        /\ r.mode = "closes"
        /\ engine' = engine \cup {<<request, r>>}
        /\ io' = [io EXCEPT !.stdout = r.stdout]
    /\ procs' = [procs EXCEPT ![Cur] = "lingering"]
    /\ UNCHANGED <<i, pc, item, request, elapsed, returnData, thrown, spawns,
                   raised, recOf, run, first>>
    /\ UNCHANGED Batch

\* the deterministic engine exits after it has closed its stdout, while the
\* loop still waits for it
DetEngineFinishes ==
    /\ pc = "await" /\ procs[Cur] = "lingering"
    /\ \E r \in Responses :
        io' = [io EXCEPT !.stderr = r.stderr, !.code = r.code]
    /\ procs' = [procs EXCEPT ![Cur] = "exited"]
    /\ UNCHANGED <<i, pc, item, request, elapsed, returnData, thrown, spawns,
                   raised, recOf, run, first, engine>>
    /\ UNCHANGED Batch

\* the deterministic engine does nothing before the timeout passes; exec's
\* timer kills it, the spawn node has no timer
DetEngineTimesOut ==
    /\ pc = "await" /\ procs[Cur] = "running" /\ ~elapsed
    /\ \E r \in Responses :
        /\ r.mode = "hangs"
        /\ engine' = engine \cup {<<request, r>>}
        /\ IF impl = "exec" /\ request.timeoutMs > 0
           THEN /\ procs' = [procs EXCEPT ![Cur] = "killed"]
                /\ io' = [io EXCEPT !.stderr = r.stderr]
           ELSE UNCHANGED <<procs, io>>
    /\ elapsed' = TRUE
    /\ UNCHANGED <<i, pc, item, request, returnData, thrown, spawns, raised,
                   recOf, run, first>>
    /\ UNCHANGED Batch

\* a slip that keeps the output array from one execution to the next
RerunKeepingOutput ==
    /\ run = 1 /\ pc \in {"done", "thrown"}
    /\ first' = [ended |-> TRUE, pc |-> pc, returnData |-> returnData,
                 thrown |-> thrown]
    /\ run' = 2
    /\ i' = 0
    /\ pc' = "loop"
    /\ item' = NoItem
    /\ request' = NoRequest
    /\ io' = NoIo
    /\ elapsed' = FALSE
    /\ thrown' = NoError
    /\ procs' = [k \in 1..nItems |-> "none"]
    /\ spawns' = [k \in 1..nItems |-> 0]
    /\ raised' = [k \in 1..nItems |-> NoError]
    /\ UNCHANGED <<returnData, recOf, engine>>
    /\ UNCHANGED Batch

\* execute has ended and is called again with the same batch: its locals
\* are fresh
Rerun ==
    /\ run = 1 /\ pc \in {"done", "thrown"}
    /\ first' = [ended |-> TRUE, pc |-> pc, returnData |-> returnData,
                 thrown |-> thrown]
    /\ run' = 2
    /\ i' = 0
    /\ pc' = "loop"
    /\ item' = NoItem
    /\ request' = NoRequest
    /\ io' = NoIo
    /\ elapsed' = FALSE
    /\ returnData' = <<>>
    /\ thrown' = NoError
    /\ procs' = [k \in 1..nItems |-> "none"]
    /\ spawns' = [k \in 1..nItems |-> 0]
    /\ raised' = [k \in 1..nItems |-> NoError]
    /\ recOf' = <<>>
    /\ UNCHANGED engine
    /\ UNCHANGED Batch

NextTwice ==
    \/ ExecPerformItem /\ FromBatch
    \/ ExecExtractItem /\ FromBatch
    \/ ExecOtherItem /\ FromBatch
    \/ SpawnItem /\ FromBatch
    \/ DetEngineExits
    \/ DetEngineClosesStdout
    \/ DetEngineFinishes
    \/ DetEngineTimesOut
    \/ EngineExitsLate
    \/ ExecCompletes
    \/ SpawnCompletes
    \/ Return
    \/ Rerun

SpecTwice == InitTwice /\ [][NextTwice]_vars

(* ------------------------------- claims -------------------------------- *)

Items == 1..nItems

\* the item the variable item describes
ItemIdx == IF pc \in {"await", "thrown", "crashed"} THEN Cur ELSE i

\* the records pushed for item k
RecordsOf(k) == { j \in 1..Len(returnData) : recOf[j] = k }

\* C1: in continue mode execute returns one record per input item, the
\* k-th record being the one of the k-th item.
C1_OneRecordPerItem ==
    (continueOnFail /\ pc = "done") =>
        /\ Len(returnData) = nItems
        /\ \A k \in Items : recOf[k] = k

C4_TimeoutEndsInvocation ==
    (pc = "await" /\ elapsed) => ~Alive(Cur)

\* C5: when an item's outcome is recorded or its error is propagated, the
\* process started for it runs no longer.
C5_NoProcessOutlivesInvocation ==
    \A k \in Items :
        (k <= i \/ (k = Cur /\ pc = "thrown")) => ~Alive(k)

\* a text that is empty or whitespace only
Blank(s) == \A k \in 1..Len(s) : s[k] \in Whitespace

\* the item in hand has an extraction schema: every item of the spawn node,
\* the extractData items of the exec node
HasSchema ==
    item.read /\ (impl = "exec" => "dataSchema" \in DOMAIN item)

SchemaOf == IF impl = "exec" THEN item.dataSchema ELSE item.schema

\* a schema text that is supplied (not blank) and is not valid JSON
Malformed(s) == ~Blank(s) /\ ~JSONParse(s).ok

\* C6: an item whose schema text is supplied and is not valid JSON fails
\* with 'Invalid JSON schema provided' and no process is started for it.
C6_MalformedSchemaMessage ==
    (HasSchema /\ Malformed(SchemaOf)) =>
        /\ spawns[ItemIdx] = 0
        /\ raised[ItemIdx] = InvalidSchemaMessage

\* the error of the required-field check that precedes the schema check
EarlierRejection ==
    IF impl = "exec"
    THEN IF Blank(item.startingUrl) THEN UrlRequiredMessage ELSE NoError
    ELSE IF Blank(item.prompt) THEN PromptRequiredMessage ELSE NoError

\* C6 as amended: such an item fails before any process is started, with
\* 'Invalid JSON schema provided' unless the required-field check that
\* precedes the schema check (blank starting URL in the exec node, blank
\* prompt in the spawn node) has rejected it with its own message.
C6_MalformedSchemaRejected ==
    (HasSchema /\ Malformed(SchemaOf)) =>
        /\ spawns[ItemIdx] = 0
        /\ raised[ItemIdx] = IF EarlierRejection # NoError
                             THEN EarlierRejection
                             ELSE InvalidSchemaMessage

\* C6 witness: an item of the spawn node with a prompt and a malformed schema
\* was rejected with the schema error
C6_Witness ==
    /\ impl = "spawn" /\ HasSchema /\ Malformed(SchemaOf)
    /\ ~Blank(item.prompt)
    /\ raised[ItemIdx] = InvalidSchemaMessage
    /\ spawns[ItemIdx] = 0

\* the item in hand is a perform-actions item
PerformItem ==
    /\ item.read
    /\ IF impl = "exec"
       THEN node.resource = "browser" /\ node.operation = "performActions"
       ELSE node.operation \in {"action", "action_extract"}

CommandText == IF impl = "exec" THEN item.commands ELSE item.prompt

\* C7: a perform-actions item whose command text is empty or whitespace only
\* fails with the validation error of the commands field and no process is
\* started for it.
C7_BlankCommandsRejected ==
    (PerformItem /\ Blank(CommandText)) =>
        /\ spawns[ItemIdx] = 0
        /\ raised[ItemIdx] = IF impl = "exec" THEN NoCommandsMessage
                                              ELSE PromptRequiredMessage

\* C7 witness: a perform-actions item of the exec node with whitespace-only
\* commands was rejected
C7_Witness ==
    /\ impl = "exec" /\ PerformItem
    /\ CommandText # <<>> /\ Blank(CommandText)
    /\ raised[ItemIdx] = NoCommandsMessage

\* the item in hand is an extract-data item
ExtractItem ==
    /\ item.read
    /\ IF impl = "exec"
       THEN node.resource = "browser" /\ node.operation = "extractData"
       ELSE node.operation = "extract"

ItemUrl == IF impl = "exec" THEN item.startingUrl ELSE item.url

RequestUrl ==
    IF impl = "exec" THEN request.params.starting_url ELSE request.payload.url

\* C8: an extract-data item with a blank starting URL is rejected without a
\* process, and the request of an extract item carries the item's own,
\* non-blank URL.
C8_ExtractNeedsTarget ==
    ExtractItem =>
        /\ Blank(ItemUrl) =>
              (spawns[ItemIdx] = 0 /\ raised[ItemIdx] # NoError)
        /\ request.sent => (~Blank(RequestUrl) /\ RequestUrl = ItemUrl)

\* C9: the API key occurs neither in the error execute rejects with nor in
\* the error field of a record.
C9_NoSecretInErrors ==
    /\ ~Includes(thrown, ApiKey)
    /\ \A j \in 1..Len(returnData) :
          "error" \in DOMAIN returnData[j] =>
              ~Includes(returnData[j].error, ApiKey)

\* C10: when the process of an item has exited non-zero, the iteration ends
\* in a failure whose message contains the process's stderr text.
C10_NonZeroExitFails ==
    [][(pc = "await" /\ pc' # "await" /\ procs[Cur] = "exited"
           /\ io.code # 0)
        => (raised'[Cur] # NoError /\ Includes(raised'[Cur], io.stderr))]_vars

\* the step that ends the iteration of an item whose process has exited
\* with code 0
EndsAfterExitZero ==
    /\ pc = "await" /\ pc' # "await"
    /\ procs[Cur] = "exited" /\ io.code = 0

\* the step pushes a record
Pushes == Len(returnData') = Len(returnData) + 1

\* the record the step pushes
Pushed == returnData'[Len(returnData')]

\* what the process wrote to its stdout, without the surrounding whitespace
RawText == Trim(io.stdout)

\* the process's stdout is not empty and is not JSON
RawOutput == RawText # <<>> /\ ~JSONParse(io.stdout).ok

\* the fields of a record that hold a text
TextFields == {"result", "error", "stdout", "rawOutput"}

\* the record holds the text in one of its text fields
Carries(rec, t) == \E f \in DOMAIN rec \cap TextFields : Includes(rec[f], t)

\* C11: when the process of an item exits zero with a non-empty stdout that
\* is not JSON, the record pushed for the item, or the error execute rejects
\* with, holds that text.
C11_RawTextKept ==
    [][(EndsAfterExitZero /\ RawOutput) =>
          IF pc' = "thrown"
          THEN Includes(thrown', RawText)
          ELSE Pushes /\ Carries(Pushed, RawText)]_vars

\* the process's stdout is a well-formed message with success = true
SuccessOutput ==
    /\ JSONParse(io.stdout).ok
    /\ "success" \in DOMAIN JSONParse(io.stdout).value
    /\ JSONParse(io.stdout).value.success

\* C12: when the process of an item exits zero having written a well-formed
\* success message, the record pushed for the item has the message's result
\* and the message's screenshots.
C12_SuccessMessageRoundTrip ==
    [][(EndsAfterExitZero /\ SuccessOutput) =>
          /\ Pushes
          /\ Get(Pushed, "result") = JSONParse(io.stdout).value.result
          /\ "screenshots" \in DOMAIN JSONParse(io.stdout).value =>
                Get(Pushed, "screenshots")
                    = JSONParse(io.stdout).value.screenshots]_vars

\* the request the node builds from the parameters of the item in hand and
\* the node's settings
OwnRequest ==
    IF impl = "exec"
    THEN IF node.operation = "performActions"
         THEN LET params == [commands |-> Trim(item.commands),
                             starting_url |-> item.startingUrl,
                             headless |-> node.headless,
                             timeout |-> node.timeout]
              IN  ExecRequest("perform_actions", params,
                              PerformParamsText(params))
         ELSE LET params == [starting_url |-> item.startingUrl,
                             navigation_commands |->
                                 Trim(item.navigationCommands),
                             data_schema |-> JSONParse(item.dataSchema).value,
                             headless |-> node.headless,
                             timeout |-> node.timeout]
              IN  ExecRequest("extract_data", params,
                              ExtractParamsText(params))
    ELSE LET payload == Payload(node.operation, item.prompt, item.url,
                                node.headless, node.timeout, ApiKey,
                                node.options)
         IN  IF SchemaSupplied(item.schema)
             THEN SpawnRequest(WithSchema(payload,
                                          JSONParse(item.schema).value))
             ELSE SpawnRequest(payload)

\* the record of the item in hand in continue mode, from its own parameters
\* and what its process wrote and how it ended
OwnRecord ==
    IF impl = "exec"
    THEN LET r == ExecuteScript(procs[Cur], io, OwnRequest.command) IN
         IF ~r.ok THEN [success |-> FALSE, error |-> r.error]
         ELSE IF node.operation = "performActions"
              THEN PerformRecord(r.value, item.commands)
              ELSE ExtractRecord(r.value, item.startingUrl)
    ELSE LET r == JSONParse(io.stdout) IN
         IF r.ok THEN r.value ELSE [success |-> FALSE, error |-> r.error]

ValidationMessages ==
    {NoCommandsMessage, UrlRequiredMessage, InvalidSchemaMessage,
     PromptRequiredMessage}

\* C14: no item has more than one process started for it or more than one
\* record; an item rejected by validation has none started, and an item the
\* loop has passed without a validation error has exactly one.
C14_OneProcessPerValidItem ==
    \A k \in Items :
        /\ spawns[k] <= 1
        /\ Cardinality(RecordsOf(k)) <= 1
        /\ raised[k] \in ValidationMessages => spawns[k] = 0
        /\ (k <= i /\ raised[k] \notin ValidationMessages) => spawns[k] = 1

\* C15: at most one of the processes started by a batch is alive.
C15_OneProcessAtATime ==
    Cardinality({k \in Items : Alive(k)}) <= 1

\* the process's stdout is a well-formed message
MessageOutput == JSONParse(io.stdout).ok

\* C16: when the process of an item exits zero having written a well-formed
\* message, the iteration ends with a record and no error, whatever the
\* process wrote to stderr.
C16_StderrIsNotFailure ==
    [][(EndsAfterExitZero /\ MessageOutput) =>
          (raised'[Cur] = NoError /\ Pushes)]_vars

\* C17: when the process of an item exits zero, a record pushed for it with
\* success = true comes from a message with success = true.
C17_SuccessFromMessage ==
    [][(EndsAfterExitZero /\ Pushes /\ Pushed.success) => SuccessOutput]_vars

\* the texts read for the item in hand
ItemTexts == { Trim(item[f]) : f \in DOMAIN item \ {"read"} } \ {<<>>}

\* C19: no request hands the API key or a text of the item to a shell within
\* a command line.
C19_NoShellInterpolation ==
    (request.sent /\ request.channel = "shell") =>
        /\ ~Includes(request.command, ApiKey)
        /\ \A t \in ItemTexts : ~Includes(request.command, t)

\* how an implementation classifies what a process wrote before it exited
\* with code 0: a record of its own ("success") or a caught error ("failure")
Classify(m, out) ==
    IF m = "exec"
    THEN IF ExecuteScript("exited", out, <<>>).ok THEN "success" ELSE "failure"
    ELSE IF JSONParse(out.stdout).ok THEN "success" ELSE "failure"

\* a success record without a result and without extracted data
EmptyPayload(rec) ==
    /\ rec.success
    /\ Get(rec, "result") \in {Undefined, <<>>}
    /\ "extractedData" \in DOMAIN rec => DOMAIN rec.extractedData = {}

\* C20: when the process of an item exits zero with a non-empty stdout that
\* is not JSON, the iteration ends as either implementation would end it for
\* that output (both with a record of its own or both with an error), and a
\* record pushed for it is not a success without payload.
C20_OneRawOutputPolicy ==
    [][(EndsAfterExitZero /\ RawOutput) =>
          /\ \A m \in Impls :
                Classify(m, io) = IF raised'[Cur] = NoError THEN "success"
                                                            ELSE "failure"
          /\ Pushes => ~EmptyPayload(Pushed)]_vars

\* C18: when a batch is executed a second time against an engine that
\* answers the same request the same way, the second execution ends as the
\* first did: with the same records in the same order, or rejecting with the
\* same error.
C18_SameBatchSameResult ==
    (run = 2 /\ pc \in {"done", "thrown"}) =>
        /\ pc = first.pc
        /\ returnData = first.returnData
        /\ thrown = first.thrown

\* C18 witness: the second execution of a two-item batch in continue mode
\* has returned a failure record of an invocation and a success record
C18_Witness ==
    /\ run = 2 /\ pc = "done" /\ Len(returnData) = 2
    /\ spawns[1] = 1 /\ ~returnData[1].success
    /\ returnData[2].success

\* C21: the error of an item whose process was killed on timeout differs
\* from the error of an item whose process exited non-zero.
C21_TimeoutDistinctFromProcessError ==
    \A j, k \in Items :
        (/\ procs[j] = "killed" /\ raised[j] # NoError
         /\ procs[k] = "exited"
         /\ Includes(raised[k], <<"Command failed: ">>))
        => raised[j] # raised[k]

\* C22: while the node waits for the output of a process, the request has
\* been written once to the process's stdin, which has then been ended, and
\* has gone no other way.
C22_RequestOnceOnStdin ==
    pc = "await" =>
        /\ request.channel = "stdin"
        /\ request.written = 1
        /\ request.ended

\* the command text of an extract item: the navigation commands of the exec
\* node, the prompt of the spawn node
ExtractCommandText ==
    IF impl = "exec" THEN item.navigationCommands ELSE item.prompt

\* C23: an extract item with a non-blank URL, a well-formed schema and an
\* empty or blank command text has a process started for it.
C23_ExtractWithoutCommands ==
    (/\ ExtractItem /\ ~Blank(ItemUrl) /\ SchemaOf = SchemaText
     /\ Blank(ExtractCommandText))
    => spawns[ItemIdx] = 1

\* the request carries a schema
RequestHasSchema ==
    IF impl = "exec" THEN "data_schema" \in DOMAIN request.params
                     ELSE "schema" \in DOMAIN request.payload

RequestSchema ==
    IF impl = "exec" THEN request.params.data_schema
                     ELSE request.payload.schema

\* C24: an extract item that is otherwise valid has a process started for it
\* when its schema text is empty, with a request without schema, and when
\* its schema text is well-formed JSON, with a request that carries the
\* parsed value.
C24_SchemaOptional ==
    (/\ ExtractItem /\ ~Blank(ItemUrl)
     /\ impl = "spawn" => ~Blank(item.prompt))
    => /\ SchemaOf = <<>> =>
            (spawns[ItemIdx] = 1 /\ request.sent /\ ~RequestHasSchema)
       /\ (SchemaOf # <<>> /\ JSONParse(SchemaOf).ok) =>
            /\ spawns[ItemIdx] = 1 /\ request.sent
            /\ RequestHasSchema
            /\ RequestSchema = JSONParse(SchemaOf).value

\* C25: a record pushed with success = true when the process of an item has
\* ended has a screenshots list: that of the process's message when the
\* message has one, the empty list otherwise.
C25_ScreenshotsDefault ==
    [][(pc = "await" /\ Pushes /\ Pushed.success) =>
          /\ "screenshots" \in DOMAIN Pushed
          /\ Pushed.screenshots =
                IF MessageOutput
                   /\ "screenshots" \in DOMAIN JSONParse(io.stdout).value
                THEN JSONParse(io.stdout).value.screenshots
                ELSE <<>>]_vars

\* every entry of the list is a text without surrounding whitespace, and
\* none is empty
TrimmedList(lines) ==
    \A k \in 1..Len(lines) : lines[k] # <<>> /\ Trim(lines[k]) = lines[k]

\* C26: the executedCommands of a record is a list of trimmed, non-blank
\* entries, and it is the command list of the request of its item.
C26_CommandList ==
    [][(pc = "await" /\ Pushes /\ "executedCommands" \in DOMAIN Pushed) =>
          /\ TrimmedList(Pushed.executedCommands)
          /\ request.params.commands = Pushed.executedCommands]_vars

\* C27: a process is started only for a request whose configured timeout is
\* greater than 0, and the exec node's timer runs for that timeout.
C27_PositiveTimeout ==
    request.sent =>
        /\ node.timeout > 0
        /\ impl = "exec" => request.timeoutMs = node.timeout * 1000


\* C28: the request of the spawn node has include_stack_trace true exactly
\* when the options set includeStackTrace to true, and capture_screenshots
\* and detailed_logging true unless the options set them to false; the
\* record of an item of that node that raised holds success = false and the
\* error's message, and nothing else.
C28_StackTraceOptIn ==
    impl = "spawn" =>
        /\ request.sent =>
            /\ request.payload.include_stack_trace
                 = ("includeStackTrace" \in DOMAIN node.options
                    /\ node.options.includeStackTrace = TRUE)
            /\ request.payload.capture_screenshots
                 = ~("captureScreenshots" \in DOMAIN node.options
                     /\ node.options.captureScreenshots = FALSE)
            /\ request.payload.detailed_logging
                 = ~("detailedLogging" \in DOMAIN node.options
                     /\ node.options.detailedLogging = FALSE)
        /\ \A k \in 1..Len(returnData) :
               raised[recOf[k]] # NoError =>
                   /\ DOMAIN returnData[k] = {"success", "error"}
                   /\ returnData[k].success = FALSE
                   /\ returnData[k].error = raised[recOf[k]]

\* a request of the spawn node is in flight for an item whose options set
\* nothing, after an earlier item's failure was recorded
C28_Witness ==
    /\ impl = "spawn" /\ pc = "await" /\ request.sent
    /\ node.options = EmptyObject
    /\ ~request.payload.include_stack_trace
    /\ request.payload.capture_screenshots
    /\ Len(returnData) >= 1 /\ raised[recOf[1]] # NoError


\* C29: in continue mode execute neither rejects nor lets an error escape
\* it: a batch does not end thrown or with an uncaught error, and an item
\* whose process could not be started or written to has a record.
C29_ContinueNeverPropagates ==
    continueOnFail =>
        /\ pc \notin {"thrown", "crashed"}
        /\ \A k \in Items : (procs[k] = "failed" /\ k <= i) => RecordsOf(k) # {}


\* what the caller of execute gets: the records of `return [returnData]`,
\* or the error of `throw error`
Outcome ==
    CASE pc = "done" -> [kind |-> "returned", records |-> returnData]
      [] pc = "thrown" -> [kind |-> "thrown", error |-> thrown]
      [] pc = "crashed" -> [kind |-> "uncaught"]
      [] OTHER -> [kind |-> "running"]

\* C30: a fail-fast batch ends in one of two ways: returning one record for
\* every item, in the items' order, none of them having raised, or throwing
\* the error of the first item that raised, with no records.
C30_FailFastTwoResults ==
    (~continueOnFail /\ Outcome.kind # "running") =>
        \/ /\ Outcome.kind = "returned"
           /\ Len(Outcome.records) = nItems
           /\ \A k \in Items : raised[k] = NoError /\ recOf[k] = k
        \/ /\ Outcome.kind = "thrown"
           /\ DOMAIN Outcome = {"kind", "error"}
           /\ Outcome.error = raised[Cur]
           /\ \A k \in Items : k # Cur => raised[k] = NoError

=============================================================================
